---- MODULE Spec2Model ----
(***************************************************************************)
(* FunctionMaxima<A, V> (src/function_maxima.h): a partial function kept   *)
(* in two std::set indexes, function_points (all points) and local_maxima  *)
(* (the local maxima), with scoped guards that roll a mutating call back   *)
(* when a comparison or a copy of A / V throws.                            *)
(*                                                                         *)
(* A std::set is modelled as the sequence of its elements in iteration     *)
(* order; an iterator is modelled as the element of the node it points to  *)
(* (elements of a set are unique), end() and mx_end() as sentinels.        *)
(* A and V are instantiated with integers.                                 *)
(***************************************************************************)
EXTENDS Integers, Sequences, FiniteSets, Bags, TLC

MaxArg == 4
MaxVal == 4

\* the arguments and values of the calls made while two structures are alive
MaxCopyArg == 2
MaxCopyVal == 2

Args == 1..MaxArg
Vals == {5 * k : k \in 1..MaxVal}

CopyArgs == 1..MaxCopyArg
CopyVals == {5 * k : k \in 1..MaxCopyVal}

VARIABLES function_points,      \* std::set<point_type, FunctionPointsComparator>
          local_maxima,         \* std::set<point_type, LocalMaximaComparator>
          old_function_points,  \* function_points when the last call was entered
          old_local_maxima,     \* local_maxima when the last call was entered
          call,                 \* the last call: operation, inputs, outcome
          trace,                \* index mutations and copies made by the last call
          other_function_points,  \* function_points of a second structure
          other_local_maxima,     \* local_maxima of the second structure
          use_count             \* shared_ptr::use_count of each point's storage

vars == <<function_points, local_maxima, old_function_points,
          old_local_maxima, call, trace, other_function_points,
          other_local_maxima, use_count>>

----------------------------------------------------------------------------
\* Points, comparators, iterators

create_point(arg, val) == [arg |-> arg, value |-> val]

end == [arg |-> 0, value |-> 0]

mx_end == [arg |-> 0, value |-> -1]

FunctionPointsComparator(fk, lk) ==
    IF lk.arg < fk.arg \/ fk.arg < lk.arg
    THEN fk.arg < lk.arg
    ELSE fk.value < lk.value

FunctionPointsComparatorPointArg(lk, fk) == lk.arg < fk

FunctionPointsComparatorArgPoint(fk, lk) == fk < lk.arg

\* a comparator that forgets the tie-break by argument
LocalMaximaComparator_value_only(fk, lk) == lk.value < fk.value

\* a comparator that orders the values ascending
LocalMaximaComparator_ascending(fk, lk) ==
    IF lk.value < fk.value \/ fk.value < lk.value
    THEN fk.value < lk.value
    ELSE fk.arg < lk.arg

\* a comparator that breaks ties by descending argument
LocalMaximaComparator_ties_descending(fk, lk) ==
    IF lk.value < fk.value \/ fk.value < lk.value
    THEN lk.value < fk.value
    ELSE lk.arg < fk.arg

LocalMaximaComparator(fk, lk) ==
    IF lk.value < fk.value \/ fk.value < lk.value
    THEN lk.value < fk.value
    ELSE fk.arg < lk.arg

Min(S) == CHOOSE x \in S : \A y \in S : x <= y

\* the Compare object of a std::set, named by its class
compare(c, x, y) ==
    IF c = "FunctionPointsComparator"
    THEN FunctionPointsComparator(x, y)
    ELSE LocalMaximaComparator(x, y)

\* std::set::lower_bound: position of the first element not ordered before k
lower_bound_pos(s, k, c) ==
    LET I == {i \in 1..Len(s) : ~compare(c, s[i], k)}
    IN  IF I = {} THEN Len(s) + 1 ELSE Min(I)

\* std::set::upper_bound: position of the first element k is ordered before
upper_bound_pos(s, k, c) ==
    LET I == {i \in 1..Len(s) : compare(c, k, s[i])}
    IN  IF I = {} THEN Len(s) + 1 ELSE Min(I)

\* a lookup that takes the first point not before a, whatever its argument
find_as_lower_bound(fp, a) ==
    LET I == {i \in 1..Len(fp) : ~FunctionPointsComparatorPointArg(fp[i], a)}
    IN  IF I = {} THEN end ELSE fp[Min(I)]

\* function_points.find(a), the transparent lookup by argument
find(fp, a) ==
    LET I == {i \in 1..Len(fp) : ~FunctionPointsComparatorPointArg(fp[i], a)}
        i == IF I = {} THEN Len(fp) + 1 ELSE Min(I)
    IN  IF i <= Len(fp) /\ ~FunctionPointsComparatorArgPoint(a, fp[i])
        THEN fp[i] ELSE end

\* function_points.lower_bound(point)
lower_bound(fp, p) ==
    LET i == lower_bound_pos(fp, p, "FunctionPointsComparator")
    IN  IF i <= Len(fp) THEN fp[i] ELSE end

\* local_maxima.find(point)
mx_find(lm, p) ==
    LET i == lower_bound_pos(lm, p, "LocalMaximaComparator")
    IN  IF i <= Len(lm) /\ ~LocalMaximaComparator(p, lm[i])
        THEN lm[i] ELSE mx_end

\* std::set::insert(value): no effect when an equivalent element is present
set_insert(s, p, c) ==
    LET i == lower_bound_pos(s, p, c)
        j == upper_bound_pos(s, p, c)
    IN  IF i <= Len(s) /\ ~compare(c, p, s[i])
        THEN s
        ELSE SubSeq(s, 1, j - 1) \o <<p>> \o SubSeq(s, j, Len(s))

\* get<0>(insert(value)): the iterator to the inserted or the equivalent element
set_insert_it(s, p, c) ==
    LET i == lower_bound_pos(s, p, c)
    IN  IF i <= Len(s) /\ ~compare(c, p, s[i]) THEN s[i] ELSE p

\* std::set::erase(iterator)
set_erase(s, it) == SelectSeq(s, LAMBDA e : e # it)

pos(s, it) == CHOOSE i \in 1..Len(s) : s[i] = it

begin(fp) == IF Len(fp) = 0 THEN end ELSE fp[1]

\* ++it on function_points
incr(fp, it) == IF pos(fp, it) = Len(fp) THEN end ELSE fp[pos(fp, it) + 1]

\* a decrement that lands on begin()
decr_to_begin(fp, it) == fp[1]

\* --it on function_points
decr(fp, it) == IF it = end THEN fp[Len(fp)] ELSE fp[pos(fp, it) - 1]

size(fp) == Len(fp)

----------------------------------------------------------------------------
\* Classification of the target point and its two neighbours

tpl(it, was, will, mx_it) == [it |-> it, was |-> was, will |-> will, mx_it |-> mx_it]

\* a check that forgets to compare the values
check_whether_the_same_arg_only(fp, a, v) == find(fp, a) # end

\* a check that never recognises the present point
check_whether_the_same_never(fp, a, v) == FALSE

check_whether_the_same(fp, a, v) ==
    find(fp, a) # end /\ ~((v < find(fp, a).value) \/ (find(fp, a).value < v))

\* `it != begin() ? --it : end()` (lines 409, 417, 464)
prev_or_end(fp, it) == IF it # begin(fp) THEN decr(fp, it) ELSE end

\* get<0>(ln_info) of get_info_for_set_value, lines 406-419
ln_for_set_value(fp, a, v) ==
    IF find(fp, a) # end
    THEN prev_or_end(fp, find(fp, a))
    ELSE IF size(fp) # 0
         THEN prev_or_end(fp, lower_bound(fp, create_point(a, v)))
         ELSE end

\* get<0>(rn_info) of get_info_for_set_value, lines 406-419
rn_for_set_value(fp, a, v) ==
    IF find(fp, a) # end
    THEN incr(fp, find(fp, a))
    ELSE IF size(fp) # 0
         THEN lower_bound(fp, create_point(a, v))
         ELSE end

\* a classification in which a value equal to a neighbour's does not count
classify_for_set_value_strict(fp, lm, v, p_it, ln_it, rn_it) ==
    [p  |-> tpl(p_it,
                p_it # end /\ mx_find(lm, p_it) # mx_end,
                /\ (ln_it = end \/ ln_it.value < v)
                /\ (rn_it = end \/ rn_it.value < v),
                IF p_it # end THEN mx_find(lm, p_it) ELSE mx_end),
     ln |-> tpl(ln_it,
                ln_it # end /\ mx_find(lm, ln_it) # mx_end,
                /\ ln_it # end
                /\ (ln_it = begin(fp) \/ ~(ln_it.value < decr(fp, ln_it).value))
                /\ ~(ln_it.value < v),
                IF ln_it # end THEN mx_find(lm, ln_it) ELSE mx_end),
     rn |-> tpl(rn_it,
                rn_it # end /\ mx_find(lm, rn_it) # mx_end,
                /\ rn_it # end
                /\ ~(rn_it.value < v)
                /\ (incr(fp, rn_it) = end
                       \/ ~(rn_it.value < incr(fp, rn_it).value)),
                IF rn_it # end THEN mx_find(lm, rn_it) ELSE mx_end),
     copies |-> p_it = end /\ size(fp) # 0]

\* get<1..3> of the three tuples, lines 421-439
classify_for_set_value(fp, lm, v, p_it, ln_it, rn_it) ==
    [p  |-> tpl(p_it,
                p_it # end /\ mx_find(lm, p_it) # mx_end,
                /\ (ln_it = end \/ ~(v < ln_it.value))
                /\ (rn_it = end \/ ~(v < rn_it.value)),
                IF p_it # end THEN mx_find(lm, p_it) ELSE mx_end),
     ln |-> tpl(ln_it,
                ln_it # end /\ mx_find(lm, ln_it) # mx_end,
                /\ ln_it # end
                /\ (ln_it = begin(fp) \/ ~(ln_it.value < decr(fp, ln_it).value))
                /\ ~(ln_it.value < v),
                IF ln_it # end THEN mx_find(lm, ln_it) ELSE mx_end),
     rn |-> tpl(rn_it,
                rn_it # end /\ mx_find(lm, rn_it) # mx_end,
                /\ rn_it # end
                /\ ~(rn_it.value < v)
                /\ (incr(fp, rn_it) = end
                       \/ ~(rn_it.value < incr(fp, rn_it).value)),
                IF rn_it # end THEN mx_find(lm, rn_it) ELSE mx_end),
     \* line 414: an unmapped argument of a non-empty set builds a point
     copies |-> p_it = end /\ size(fp) # 0]

get_info_for_set_value(fp, lm, a, v) ==
    classify_for_set_value(fp, lm, v, find(fp, a),
                           ln_for_set_value(fp, a, v), rn_for_set_value(fp, a, v))

\* a classification that never finds a left neighbour
ln_for_erase_none(fp, p_it) == end

\* get<0>(ln_info) of get_info_for_erase, lines 462-466
ln_for_erase(fp, p_it) == IF size(fp) # 0 THEN prev_or_end(fp, p_it) ELSE end

\* a classification that never finds a right neighbour
rn_for_erase_none(fp, p_it) == end

\* get<0>(rn_info) of get_info_for_erase, lines 462-466
rn_for_erase(fp, p_it) == IF size(fp) # 0 THEN incr(fp, p_it) ELSE end

\* a classification that tests the right neighbour against the point being
\* erased instead of against the left neighbour
classify_for_erase_against_erased(fp, lm, p_it, ln_it, rn_it) ==
    [p  |-> tpl(p_it, mx_find(lm, p_it) # mx_end, FALSE, mx_find(lm, p_it)),
     ln |-> tpl(ln_it,
                ln_it # end /\ mx_find(lm, ln_it) # mx_end,
                /\ ln_it # end
                /\ (ln_it = begin(fp) \/ ~(ln_it.value < decr(fp, ln_it).value))
                /\ (rn_it = end \/ ~(ln_it.value < rn_it.value)),
                IF ln_it # end THEN mx_find(lm, ln_it) ELSE mx_end),
     rn |-> tpl(rn_it,
                rn_it # end /\ mx_find(lm, rn_it) # mx_end,
                /\ rn_it # end
                /\ ~(rn_it.value < p_it.value)
                /\ (incr(fp, rn_it) = end
                       \/ ~(rn_it.value < incr(fp, rn_it).value)),
                IF rn_it # end THEN mx_find(lm, rn_it) ELSE mx_end)]

\* get<1..3> of the three tuples, lines 459-460 and 468-484
classify_for_erase(fp, lm, p_it, ln_it, rn_it) ==
    [p  |-> tpl(p_it, mx_find(lm, p_it) # mx_end, FALSE, mx_find(lm, p_it)),
     ln |-> tpl(ln_it,
                ln_it # end /\ mx_find(lm, ln_it) # mx_end,
                /\ ln_it # end
                /\ (ln_it = begin(fp) \/ ~(ln_it.value < decr(fp, ln_it).value))
                /\ (rn_it = end \/ ~(ln_it.value < rn_it.value)),
                IF ln_it # end THEN mx_find(lm, ln_it) ELSE mx_end),
     rn |-> tpl(rn_it,
                rn_it # end /\ mx_find(lm, rn_it) # mx_end,
                /\ rn_it # end
                /\ (ln_it = end \/ ~(rn_it.value < ln_it.value))
                /\ (incr(fp, rn_it) = end
                       \/ ~(rn_it.value < incr(fp, rn_it).value)),
                IF rn_it # end THEN mx_find(lm, rn_it) ELSE mx_end)]

\* p_it is get<0>(p_info), set by erase before the call (line 360)
get_info_for_erase(fp, lm, p_it) ==
    classify_for_erase(fp, lm, p_it, ln_for_erase(fp, p_it), rn_for_erase(fp, p_it))

----------------------------------------------------------------------------
\* The structure while a call runs: both indexes, the events of the call so
\* far, whether an exception is propagating, and the value returned.

Event(op, line) == [op |-> op, line |-> line]

fp_insert(this, p, line) ==
    [this EXCEPT !.function_points = set_insert(@, p, "FunctionPointsComparator"),
                 !.trace = Append(@, Event("fp_insert", line))]

mx_insert(this, p, line) ==
    [this EXCEPT !.local_maxima = set_insert(@, p, "LocalMaximaComparator"),
                 !.trace = Append(@, Event("mx_insert", line))]

\* an erase from function_points that is left out
fp_erase_skipped(this, it, line) ==
    [this EXCEPT !.trace = Append(@, Event("fp_erase", line))]

fp_erase(this, it, line) ==
    [this EXCEPT !.function_points = set_erase(@, it),
                 !.trace = Append(@, Event("fp_erase", line))]

\* an erase from local_maxima that is left out
mx_erase_skipped(this, it, line) ==
    [this EXCEPT !.trace = Append(@, Event("mx_erase", line))]

mx_erase(this, it, line) ==
    [this EXCEPT !.local_maxima = set_erase(@, it),
                 !.trace = Append(@, Event("mx_erase", line))]

copy(this, line) == [this EXCEPT !.trace = Append(@, Event("copy", line))]

\* `if (c) local_maxima.insert(p);`
mx_insert_if(c, this, p, line) == IF c THEN mx_insert(this, p, line) ELSE this

\* `if (c) function_points.erase(it);`
fp_erase_if(c, this, it, line) == IF c THEN fp_erase(this, it, line) ELSE this

\* `if (c) local_maxima.erase(it);`
mx_erase_if(c, this, it, line) == IF c THEN mx_erase(this, it, line) ELSE this

\* `if (c) create_point(a, v);`
copy_if(c, this, line) == IF c THEN copy(this, line) ELSE this

Throw(this) == [this EXCEPT !.thrown = TRUE]

----------------------------------------------------------------------------
\* Guards

PointInsertionGuard(it) == [m_it |-> it, reverse |-> TRUE]

PointInsertionGuard_done(g) == [g EXCEPT !.reverse = FALSE]

\* a destructor that does not roll the insertion back
PointInsertionGuard_dtor_noop(g, this) == this

PointInsertionGuard_dtor(g, this) == fp_erase_if(g.reverse, this, g.m_it, 215)

LocalMaximaUpdateGuard ==
    [point_it |-> mx_end, ln_it |-> mx_end, rn_it |-> mx_end, reverse |-> TRUE,
     is_point_it_not_null |-> FALSE, is_ln_it_not_null |-> FALSE,
     is_rn_it_not_null |-> FALSE]

set_point_it(g, it) == [g EXCEPT !.point_it = it, !.is_point_it_not_null = TRUE]

\* a setter that forgets to arm the iterator
set_ln_it_unarmed(g, it) == [g EXCEPT !.ln_it = it]

set_ln_it(g, it) == [g EXCEPT !.ln_it = it, !.is_ln_it_not_null = TRUE]

set_rn_it(g, it) == [g EXCEPT !.rn_it = it, !.is_rn_it_not_null = TRUE]

LocalMaximaUpdateGuard_done(g) == [g EXCEPT !.reverse = FALSE]

\* a destructor that does not roll the insertions back
LocalMaximaUpdateGuard_dtor_noop(g, this) == this

LocalMaximaUpdateGuard_dtor(g, this) ==
    mx_erase_if(g.reverse /\ g.is_rn_it_not_null,
        mx_erase_if(g.reverse /\ g.is_ln_it_not_null,
            mx_erase_if(g.reverse /\ g.is_point_it_not_null,
                        this, g.point_it, 239),
            g.ln_it, 243),
        g.rn_it, 247)

----------------------------------------------------------------------------
\* The operations.  fail names the statement of the call whose comparison or
\* copy throws ("none": nothing throws); a statement the call does not reach,
\* or one that neither compares nor copies, does not throw.

SetValueFails == {"none", "check_whether_the_same", "get_info_for_set_value",
                  "create_point", "function_points.insert",
                  "local_maxima.insert(new_point)", "local_maxima.insert(ln)",
                  "local_maxima.insert(rn)"}

EraseFails == {"none", "function_points.find", "get_info_for_erase",
               "local_maxima.insert(ln)", "local_maxima.insert(rn)"}

ValueAtFails == {"none", "function_points.find"}

\* the armed guard after `if (c) g.set_..._it(get<0>(local_maxima.insert(p)))`
guard_if(c, g, armed) == IF c THEN armed ELSE g

\* scope exit: local_maxima_g is destroyed first, then point_insertion_g
set_value_aux_exit(this, point_insertion_g, local_maxima_g) ==
    PointInsertionGuard_dtor(point_insertion_g,
                             LocalMaximaUpdateGuard_dtor(local_maxima_g, this))

set_value_aux(this, p_info, ln_info, rn_info, new_point, fail) ==
    LET s1 == fp_insert(this, new_point, 520)
        point_insertion_g ==
            PointInsertionGuard(set_insert_it(this.function_points, new_point,
                                              "FunctionPointsComparator"))
        g0 == LocalMaximaUpdateGuard
        s2 == mx_insert_if(p_info.will, s1, new_point, 525)
        g1 == guard_if(p_info.will, g0,
                       set_point_it(g0, set_insert_it(s1.local_maxima, new_point,
                                                      "LocalMaximaComparator")))
        s3 == mx_insert_if(~ln_info.was /\ ln_info.will, s2, ln_info.it, 528)
        g2 == guard_if(~ln_info.was /\ ln_info.will, g1,
                       set_ln_it(g1, set_insert_it(s2.local_maxima, ln_info.it,
                                                   "LocalMaximaComparator")))
        s4 == mx_insert_if(~rn_info.was /\ rn_info.will, s3, rn_info.it, 531)
        g3 == guard_if(~rn_info.was /\ rn_info.will, g2,
                       set_rn_it(g2, set_insert_it(s3.local_maxima, rn_info.it,
                                                   "LocalMaximaComparator")))
        s5 == fp_erase_if(p_info.it # end, s4, p_info.it, 534)
        s6 == mx_erase_if(p_info.was, s5, p_info.mx_it, 537)
        s7 == mx_erase_if(ln_info.was /\ ~ln_info.will, s6, ln_info.mx_it, 540)
        s8 == mx_erase_if(rn_info.was /\ ~rn_info.will, s7, rn_info.mx_it, 543)
    IN  IF fail = "function_points.insert"
        THEN Throw(this)
        ELSE IF fail = "local_maxima.insert(new_point)" /\ p_info.will
        THEN Throw(set_value_aux_exit(s1, point_insertion_g, g0))
        ELSE IF fail = "local_maxima.insert(ln)" /\ ~ln_info.was /\ ln_info.will
        THEN Throw(set_value_aux_exit(s2, point_insertion_g, g1))
        ELSE IF fail = "local_maxima.insert(rn)" /\ ~rn_info.was /\ rn_info.will
        THEN Throw(set_value_aux_exit(s3, point_insertion_g, g2))
        ELSE set_value_aux_exit(s8, PointInsertionGuard_done(point_insertion_g),
                                LocalMaximaUpdateGuard_done(g3))

\* lines 347-352, with the classification info already computed
set_value_update(this, info, a, v, fail) ==
    IF fail = "create_point"
    THEN Throw(copy_if(info.copies, this, 414))
    ELSE set_value_aux(copy(copy_if(info.copies, this, 414), 351),
                       info.p, info.ln, info.rn, create_point(a, v), fail)

set_value(this, a, v, fail) ==
    IF fail = "check_whether_the_same" /\ size(this.function_points) # 0
    THEN Throw(this)
    ELSE IF check_whether_the_same(this.function_points, a, v)
    THEN this
    ELSE IF fail = "get_info_for_set_value" /\ size(this.function_points) # 0
    THEN Throw(this)
    ELSE set_value_update(this,
                          get_info_for_set_value(this.function_points,
                                                 this.local_maxima, a, v),
                          a, v, fail)

\* an erase_aux that removes the point before it promotes the neighbours
erase_aux_erase_first(this, p_info, ln_info, rn_info, fail) ==
    LET g0 == LocalMaximaUpdateGuard
        e1 == fp_erase(this, p_info.it, 500)
        e2 == mx_erase_if(p_info.was, e1, p_info.mx_it, 503)
        s1 == mx_insert_if(~ln_info.was /\ ln_info.will, e2, ln_info.it, 495)
        g1 == guard_if(~ln_info.was /\ ln_info.will, g0,
                       set_point_it(g0, set_insert_it(e2.local_maxima, ln_info.it,
                                                      "LocalMaximaComparator")))
        s2 == mx_insert_if(~rn_info.was /\ rn_info.will, s1, rn_info.it, 498)
        g2 == guard_if(~rn_info.was /\ rn_info.will, g1,
                       set_point_it(g1, set_insert_it(s1.local_maxima, rn_info.it,
                                                      "LocalMaximaComparator")))
        s5 == mx_erase_if(ln_info.was /\ ~ln_info.will, s2, ln_info.mx_it, 506)
        s6 == mx_erase_if(rn_info.was /\ ~rn_info.will, s5, rn_info.mx_it, 509)
    IN  IF fail = "local_maxima.insert(ln)" /\ ~ln_info.was /\ ln_info.will
        THEN Throw(LocalMaximaUpdateGuard_dtor(g0, e2))
        ELSE IF fail = "local_maxima.insert(rn)" /\ ~rn_info.was /\ rn_info.will
        THEN Throw(LocalMaximaUpdateGuard_dtor(g1, s1))
        ELSE LocalMaximaUpdateGuard_dtor(LocalMaximaUpdateGuard_done(g2), s6)

erase_aux(this, p_info, ln_info, rn_info, fail) ==
    LET g0 == LocalMaximaUpdateGuard
        s1 == mx_insert_if(~ln_info.was /\ ln_info.will, this, ln_info.it, 495)
        g1 == guard_if(~ln_info.was /\ ln_info.will, g0,
                       set_point_it(g0, set_insert_it(this.local_maxima, ln_info.it,
                                                      "LocalMaximaComparator")))
        s2 == mx_insert_if(~rn_info.was /\ rn_info.will, s1, rn_info.it, 498)
        g2 == guard_if(~rn_info.was /\ rn_info.will, g1,
                       set_point_it(g1, set_insert_it(s1.local_maxima, rn_info.it,
                                                      "LocalMaximaComparator")))
        s3 == fp_erase(s2, p_info.it, 500)
        s4 == mx_erase_if(p_info.was, s3, p_info.mx_it, 503)
        s5 == mx_erase_if(ln_info.was /\ ~ln_info.will, s4, ln_info.mx_it, 506)
        s6 == mx_erase_if(rn_info.was /\ ~rn_info.will, s5, rn_info.mx_it, 509)
    IN  IF fail = "local_maxima.insert(ln)" /\ ~ln_info.was /\ ln_info.will
        THEN Throw(LocalMaximaUpdateGuard_dtor(g0, this))
        ELSE IF fail = "local_maxima.insert(rn)" /\ ~rn_info.was /\ rn_info.will
        THEN Throw(LocalMaximaUpdateGuard_dtor(g1, s1))
        ELSE LocalMaximaUpdateGuard_dtor(LocalMaximaUpdateGuard_done(g2), s6)

\* lines 361 and 366, with the classification info already computed
erase_update(this, info, fail) == erase_aux(this, info.p, info.ln, info.rn, fail)

erase(this, a, fail) ==
    IF fail = "function_points.find" /\ size(this.function_points) # 0
    THEN Throw(this)
    ELSE IF find(this.function_points, a) = end
    THEN this
    ELSE IF fail = "get_info_for_erase"
    THEN Throw(this)
    ELSE erase_update(this,
                      get_info_for_erase(this.function_points, this.local_maxima,
                                         find(this.function_points, a)),
                      fail)

InvalidArg == -1

\* a lookup that returns a value-initialised V for an unmapped argument
value_at_value_initialised(this, a, fail) ==
    IF fail = "function_points.find" /\ size(this.function_points) # 0
    THEN Throw(this)
    ELSE IF find(this.function_points, a) # end
    THEN [this EXCEPT !.ret = find(this.function_points, a).value]
    ELSE [this EXCEPT !.ret = 0]

\* the value returned; InvalidArg is thrown for an unmapped argument
value_at(this, a, fail) ==
    IF fail = "function_points.find" /\ size(this.function_points) # 0
    THEN Throw(this)
    ELSE IF find(this.function_points, a) # end
    THEN [this EXCEPT !.ret = find(this.function_points, a).value]
    ELSE [this EXCEPT !.thrown = TRUE, !.ret = InvalidArg]

----------------------------------------------------------------------------
\* The state machine: one action per public operation

NoCall == [op |-> "none", a |-> 0, v |-> 0, fail |-> "none",
           thrown |-> FALSE, ret |-> 0]

Call(op, a, v, fail) == [NoCall EXCEPT !.op = op, !.a = a, !.v = v, !.fail = fail]

This == [function_points |-> function_points, local_maxima |-> local_maxima,
         trace |-> <<>>, thrown |-> FALSE, ret |-> 0]

\* the point objects the two sets of a structure hold, one per element; each
\* owns a share of its point's storage (lines 295-296)
holders(this) ==
    SetToBag({this.function_points[i] : i \in 1..Len(this.function_points)})
        (+) SetToBag({this.local_maxima[i] : i \in 1..Len(this.local_maxima)})

Other == [function_points |-> other_function_points,
          local_maxima |-> other_local_maxima]

Init ==
    /\ function_points = <<>>
    /\ local_maxima = <<>>
    /\ old_function_points = <<>>
    /\ old_local_maxima = <<>>
    /\ call = NoCall
    /\ trace = <<>>
    /\ other_function_points = <<>>
    /\ other_local_maxima = <<>>
    /\ use_count = EmptyBag

\* r: the structure when the call c ends.  The statement c.fail names throws
\* only when the call reaches it.  old_function_points, old_local_maxima, call
\* and trace record the call for the caller.
Finish(r, c) ==
    /\ call = NoCall
    /\ (c.fail # "none") => r.thrown
    /\ function_points' = r.function_points
    /\ local_maxima' = r.local_maxima
    /\ trace' = r.trace
    /\ old_function_points' = function_points
    /\ old_local_maxima' = local_maxima
    /\ call' = [c EXCEPT !.thrown = r.thrown, !.ret = r.ret]
    /\ use_count' = (use_count (+) holders(r)) (-) holders(This)
    /\ UNCHANGED <<other_function_points, other_local_maxima>>

SetValueWith(Fails) ==
    \E a \in Args, v \in Vals, fail \in Fails :
        Finish(set_value(This, a, v, fail), Call("set_value", a, v, fail))

EraseWith(Fails) ==
    \E a \in Args, fail \in Fails :
        Finish(erase(This, a, fail), Call("erase", a, 0, fail))

ValueAt ==
    \E a \in Args, fail \in ValueAtFails :
        Finish(value_at(This, a, fail), Call("value_at", a, 0, fail))

\* The caller has seen the outcome of the call; the record of the call is
\* dropped and the structure is ready for the next call.
Return ==
    /\ call # NoCall
    /\ call' = NoCall
    /\ trace' = <<>>
    /\ old_function_points' = function_points
    /\ old_local_maxima' = local_maxima
    /\ UNCHANGED <<function_points, local_maxima, other_function_points,
                   other_local_maxima, use_count>>

SetValue == SetValueWith(SetValueFails)

Erase == EraseWith(EraseFails)

Next == SetValue \/ Erase \/ ValueAt \/ Return

Spec == Init /\ [][Next]_vars

\* Only calls in which nothing throws
SetValueSuccess == SetValueWith({"none"})

EraseSuccess == EraseWith({"none"})

NextSuccess == SetValueSuccess \/ EraseSuccess \/ Return

SpecSuccess == Init /\ [][NextSuccess]_vars

------------------------------------------------------------------------\* The caller follows a successful call with a second call on the same
\* argument before it forgets the first: erase(a) after a set_value(a, v)
\* that mapped a new argument, value_at(a) after any of them.
EraseAfterSetValue ==
    /\ call.op = "set_value" /\ ~call.thrown
    /\ find(old_function_points, call.a) = end
    /\ function_points' = erase(This, call.a, "none").function_points
    /\ local_maxima' = erase(This, call.a, "none").local_maxima
    /\ trace' = erase(This, call.a, "none").trace
    /\ call' = [call EXCEPT !.op = "set_value;erase",
                            !.thrown = erase(This, call.a, "none").thrown]
    /\ use_count' = (use_count (+) holders(erase(This, call.a, "none")))
                        (-) holders(This)
    /\ UNCHANGED <<old_function_points, old_local_maxima,
                   other_function_points, other_local_maxima>>

ValueAtAfter ==
    /\ call.op \in {"set_value", "erase", "set_value;erase"} /\ ~call.thrown
    /\ function_points' = value_at(This, call.a, "none").function_points
    /\ local_maxima' = value_at(This, call.a, "none").local_maxima
    /\ trace' = value_at(This, call.a, "none").trace
    /\ old_function_points' = function_points
    /\ old_local_maxima' = local_maxima
    /\ call' = [call EXCEPT !.op = call.op \o ";value_at",
                            !.thrown = value_at(This, call.a, "none").thrown,
                            !.ret = value_at(This, call.a, "none").ret]
    /\ UNCHANGED <<other_function_points, other_local_maxima, use_count>>

NextChained == Next \/ EraseAfterSetValue \/ ValueAtAfter

SpecChained == Init /\ [][NextChained]_vars

------
\* Two structures: the copy constructor, the assignment and calls on either

\* a copy that points at the same storage without taking a share of it
copy_constructor_unowned(other) ==
    [function_points |-> other.function_points,
     local_maxima |-> other.local_maxima,
     uses |-> EmptyBag]

\* FunctionMaxima(const FunctionMaxima &other) = default: both sets are
\* copied element by element, each copied point object taking a share of
\* the storage of the point it copies
copy_constructor(other) ==
    [function_points |-> other.function_points,
     local_maxima |-> other.local_maxima,
     uses |-> holders(other)]

\* operator=(FunctionMaxima other): the parameter is a copy of the argument,
\* both sets are swapped with it and it is destroyed holding the old contents
operator_assign(this, other) ==
    [function_points |-> copy_constructor(other).function_points,
     local_maxima |-> copy_constructor(other).local_maxima,
     uses |-> copy_constructor(other).uses,
     released |-> holders(this)]

\* FunctionMaxima other(*this), in place of the second structure, which is
\* destroyed
CopyConstruct ==
    /\ call = NoCall
    /\ other_function_points' = copy_constructor(This).function_points
    /\ other_local_maxima' = copy_constructor(This).local_maxima
    /\ use_count' = (use_count (-) holders(Other)) (+) copy_constructor(This).uses
    /\ call' = Call("copy", 0, 0, "none")
    /\ trace' = <<>>
    /\ old_function_points' = function_points
    /\ old_local_maxima' = local_maxima
    /\ UNCHANGED <<function_points, local_maxima>>

\* *this = other
Assign ==
    /\ call = NoCall
    /\ function_points' = operator_assign(This, Other).function_points
    /\ local_maxima' = operator_assign(This, Other).local_maxima
    /\ use_count' = (use_count (+) operator_assign(This, Other).uses)
                        (-) operator_assign(This, Other).released
    /\ call' = Call("assign", 0, 0, "none")
    /\ trace' = <<>>
    /\ old_function_points' = function_points
    /\ old_local_maxima' = local_maxima
    /\ UNCHANGED <<other_function_points, other_local_maxima>>

\* The caller turns to the second structure: its next calls are made on it.
Switch ==
    /\ call = NoCall
    /\ function_points' = other_function_points
    /\ local_maxima' = other_local_maxima
    /\ other_function_points' = function_points
    /\ other_local_maxima' = local_maxima
    /\ old_function_points' = other_function_points
    /\ old_local_maxima' = other_local_maxima
    /\ UNCHANGED <<call, trace, use_count>>

SetValueOfCopy ==
    \E a \in CopyArgs, v \in CopyVals, fail \in SetValueFails :
        Finish(set_value(This, a, v, fail), Call("set_value", a, v, fail))

EraseOfCopy ==
    \E a \in CopyArgs, fail \in EraseFails :
        Finish(erase(This, a, fail), Call("erase", a, 0, fail))

NextCopy ==
    SetValueOfCopy \/ EraseOfCopy \/ CopyConstruct \/ Assign \/ Switch \/ Return

SpecCopy == Init /\ [][NextCopy]_vars

-----------------------------------------------------------------------------
\* Vocabulary of the properties, stated on the observable sequences
\* (begin..end, mx_begin..mx_end) without the operations' own definitions.

Range(s) == {s[i] : i \in 1..Len(s)}

ArgsOf(s) == {s[i].arg : i \in 1..Len(s)}

Mapped(s, a) == \E i \in 1..Len(s) : s[i].arg = a

\* the value the domain sequence s holds for argument a (a mapped in s)
ValueOf(s, a) == s[CHOOSE i \in 1..Len(s) : s[i].arg = a].value

\* the local-maximum predicate for the i-th point of the domain sequence s
IsLocalMaximum(s, i) ==
    /\ (i = 1 \/ ~(s[i - 1].value > s[i].value))
    /\ (i = Len(s) \/ ~(s[i + 1].value > s[i].value))

LocalMaximaOf(s) == {s[i] : i \in {j \in 1..Len(s) : IsLocalMaximum(s, j)}}

Mutations == {"fp_insert", "mx_insert", "fp_erase", "mx_erase"}

TraceHas(op, line) == \E i \in 1..Len(trace) : trace[i] = Event(op, line)

Unchanged ==
    /\ function_points = old_function_points
    /\ local_maxima = old_local_maxima
    /\ size(function_points) = size(old_function_points)

\* C1: after successful set_value and erase calls only, the maxima index
\* holds exactly the domain points that satisfy the local-maximum predicate
\* against their current neighbours: none missing, none stale.
C1_MaximaExact == Range(local_maxima) = LocalMaximaOf(function_points)

\* an erase promoted a neighbour while another point stays a non-maximum
C1_Witness ==
    /\ call.op = "erase" /\ ~call.thrown
    /\ TraceHas("mx_insert", 498)
    /\ Len(local_maxima) < Len(function_points)

\* C2: a set_value call in which a comparison or copy throws leaves the
\* domain sequence, the maxima sequence and size() as they were on entry.
C2_SetValueRollback ==
    (call.op = "set_value" /\ call.thrown) => Unchanged

\* a replacing set_value threw on the last insertion, after the new point and
\* the left neighbour had been inserted; both guards rolled back
C2_Witness ==
    /\ call.op = "set_value" /\ call.thrown
    /\ call.fail = "local_maxima.insert(rn)"
    /\ Mapped(old_function_points, call.a)
    /\ TraceHas("mx_erase", 239) /\ TraceHas("mx_erase", 243)
    /\ TraceHas("fp_erase", 215)

\* C3: an erase call in which a comparison throws leaves the domain
\* sequence, the maxima sequence and size() as they were on entry, also when
\* both neighbours are promoted and the second insertion throws.
C3_EraseRollback ==
    (call.op = "erase" /\ call.thrown) => Unchanged

\* both neighbours were to be promoted, the left one was inserted, the
\* insertion of the right one threw and the guard removed the left one
C3_Witness ==
    /\ call.op = "erase" /\ call.thrown
    /\ call.fail = "local_maxima.insert(rn)"
    /\ TraceHas("mx_insert", 495) /\ TraceHas("mx_erase", 239)

\* C4: the domain sequence is strictly ascending by argument, so every mapped
\* argument occurs exactly once in it.
C4_DomainAscending ==
    /\ \A i \in 1..(Len(function_points) - 1) :
           function_points[i].arg < function_points[i + 1].arg
    /\ \A a \in Args :
           find(function_points, a) # end =>
               Cardinality({i \in 1..Len(function_points) :
                               function_points[i].arg = a}) = 1

\* a value was replaced at an argument that has points on both sides
C4_Witness ==
    /\ call.op = "set_value" /\ ~call.thrown
    /\ Mapped(old_function_points, call.a)
    /\ ValueOf(old_function_points, call.a) # call.v
    /\ TraceHas("fp_erase", 534)
    /\ Len(function_points) = 3 /\ function_points[2].arg = call.a

\* C5: after a successful set_value(a, v), value_at(a) returns v, every other
\* argument maps to what it mapped to before, and size() grew by one if a
\* was unmapped and is unchanged if a was mapped.
C5_SetValueEffect ==
    (call.op = "set_value" /\ ~call.thrown) =>
        /\ find(function_points, call.a) # end
        /\ find(function_points, call.a).value = call.v
        /\ \A b \in Args \ {call.a} :
               find(function_points, b) = find(old_function_points, b)
        /\ size(function_points) =
               size(old_function_points)
                   + (IF Mapped(old_function_points, call.a) THEN 0 ELSE 1)

\* a successful set_value replaced a different value next to another point
C5_Witness ==
    /\ call.op = "set_value" /\ ~call.thrown
    /\ Mapped(old_function_points, call.a)
    /\ ValueOf(old_function_points, call.a) # call.v
    /\ Len(function_points) = 2

\* C6: after a successful erase(a) of a mapped a, a is in neither sequence,
\* every other argument maps to what it mapped to before, and size() is one
\* less.
C6_EraseEffect ==
    (call.op = "erase" /\ ~call.thrown /\ Mapped(old_function_points, call.a)) =>
        /\ ~Mapped(function_points, call.a)
        /\ ~Mapped(local_maxima, call.a)
        /\ \A b \in Args \ {call.a} :
               find(function_points, b) = find(old_function_points, b)
        /\ size(function_points) = size(old_function_points) - 1

\* a successful erase removed a point that was a local maximum
C6_Witness ==
    /\ call.op = "erase" /\ ~call.thrown
    /\ Mapped(old_local_maxima, call.a)
    /\ Len(function_points) = 2

\* the structure built by set_value(1, 10), set_value(2, 20), set_value(3, 15)
ScenarioA == <<create_point(1, 10), create_point(2, 20), create_point(3, 15)>>

ErasedTwoFromScenarioA ==
    /\ call.op = "erase" /\ call.a = 2 /\ ~call.thrown
    /\ old_function_points = ScenarioA

\* C7 as stated: erasing argument 2 from the structure holding (1,10),
\* (2,20), (3,15) yields an empty maxima sequence.
C7_ScenarioD_Stated ==
    ErasedTwoFromScenarioA =>
        (old_local_maxima = <<create_point(2, 20)>> /\ local_maxima = <<>>)

\* C7 amended: the structure holding (1,10), (2,20), (3,15) has the maxima
\* sequence (2,20), and erasing argument 2 from it yields the maxima sequence
\* (3,15): with (2,20) gone, (3,15) has the left neighbour (1,10), which is
\* not greater, and no right neighbour.
C7_ScenarioD_Amended ==
    ErasedTwoFromScenarioA =>
        (old_local_maxima = <<create_point(2, 20)>>
            /\ local_maxima = <<create_point(3, 15)>>)

\* argument 2 was erased from the structure of scenario A
C7_Witness == ErasedTwoFromScenarioA /\ TraceHas("mx_erase", 503)

\* C8: set_value(a, v) with a already mapped to a value equal to v leaves
\* both sequences and size() unchanged and neither inserts into nor removes
\* from an index.
C8_SameValueNoOp ==
    (/\ call.op = "set_value"
     /\ Mapped(old_function_points, call.a)
     /\ ValueOf(old_function_points, call.a) = call.v) =>
        (Unchanged /\ \A i \in 1..Len(trace) : trace[i].op \notin Mutations)

\* set_value returned normally for a value that was already mapped, among
\* other points
C8_Witness ==
    /\ call.op = "set_value" /\ ~call.thrown
    /\ Mapped(old_function_points, call.a)
    /\ ValueOf(old_function_points, call.a) = call.v
    /\ Len(old_function_points) = 3

\* the arguments of the domain neighbours of a in the domain sequence s
NeighbourArgs(s, a) ==
    {b \in ArgsOf(s) : b < a /\ \A c \in ArgsOf(s) : c < a => c <= b}
        \cup {b \in ArgsOf(s) : a < b /\ \A c \in ArgsOf(s) : a < c => b <= c}

Bystanders ==
    {q \in Range(old_function_points) \cup Range(function_points) :
        q.arg \notin {call.a} \cup NeighbourArgs(old_function_points, call.a)}

\* C9: a successful set_value(a, v) or erase(a) leaves the maxima membership
\* of every point that is neither at a nor a domain neighbour of a unchanged.
C9_Locality ==
    (call.op \in {"set_value", "erase"} /\ ~call.thrown) =>
        \A q \in Bystanders :
            (q \in Range(local_maxima)) <=> (q \in Range(old_local_maxima))

\* a successful call changed the maxima next to a while a third point, a
\* maximum, stood by
C9_Witness ==
    /\ call.op \in {"set_value", "erase"} /\ ~call.thrown
    /\ local_maxima # old_local_maxima
    /\ \E q \in Bystanders : q \in Range(local_maxima)

\* C10: after any calls of set_value, erase and value_at, throwing or not,
\* the maxima index is a subset of the domain index, no argument has two
\* points in the domain index, and a point is in the maxima index exactly
\* when it satisfies the local-maximum predicate.
C10_ValidState ==
    /\ Range(local_maxima) \subseteq Range(function_points)
    /\ \A a \in Args :
           Cardinality({i \in 1..Len(function_points) :
                           function_points[i].arg = a}) <= 1
    /\ \A i \in 1..Len(function_points) :
           (function_points[i] \in Range(local_maxima))
               <=> IsLocalMaximum(function_points, i)

\* a replacing set_value threw while promoting the left neighbour, after the
\* new point had entered both indexes, and both insertions were rolled back
C10_Witness ==
    /\ call.op = "set_value" /\ call.thrown
    /\ call.fail = "local_maxima.insert(ln)"
    /\ Mapped(old_function_points, call.a)
    /\ TraceHas("mx_insert", 525) /\ TraceHas("mx_erase", 239)
    /\ TraceHas("fp_erase", 215)

\* C12: erase(a) with a unmapped leaves both sequences and size() unchanged.
C12_EraseUnmappedNoOp ==
    (call.op = "erase" /\ ~Mapped(old_function_points, call.a)) =>
        (Unchanged /\ \A i \in 1..Len(trace) : trace[i].op \notin Mutations)

\* erase returned normally for an argument lying between two mapped ones
C12_Witness ==
    /\ call.op = "erase" /\ ~call.thrown
    /\ ~Mapped(old_function_points, call.a)
    /\ \E b, c \in ArgsOf(old_function_points) : b < call.a /\ call.a < c

\* C13: the maxima sequence is strictly descending by value, points of equal
\* value are strictly ascending by argument, and no point is listed twice.
C13_MaximaOrder ==
    /\ \A i \in 1..(Len(local_maxima) - 1) :
           \/ local_maxima[i].value > local_maxima[i + 1].value
           \/ /\ local_maxima[i].value = local_maxima[i + 1].value
              /\ local_maxima[i].arg < local_maxima[i + 1].arg
    /\ \A i, j \in 1..Len(local_maxima) :
           local_maxima[i] = local_maxima[j] => i = j

\* three maxima, a strict descent followed by a tie, the tie entered last at
\* the smaller argument
C13_Witness ==
    /\ call.op = "set_value" /\ ~call.thrown
    /\ Len(local_maxima) = 3
    /\ local_maxima[1].value > local_maxima[2].value
    /\ local_maxima[2].value = local_maxima[3].value
    /\ local_maxima[2].arg = call.a

\* the structure built by set_value(1, 10), set_value(2, 10), set_value(3, 5)
ScenarioB == <<create_point(1, 10), create_point(2, 10), create_point(3, 5)>>

\* C14: two domain-adjacent points of equal value whose outward neighbours are
\* absent or not greater are both in the maxima sequence; the structure
\* holding (1,10), (2,10), (3,5) has the maxima sequence (1,10), (2,10).
C14_PlateauEdges ==
    /\ \A i \in 1..(Len(function_points) - 1) :
           (/\ function_points[i].value = function_points[i + 1].value
            /\ (i = 1 \/ ~(function_points[i - 1].value > function_points[i].value))
            /\ (i + 1 = Len(function_points)
                   \/ ~(function_points[i + 2].value > function_points[i + 1].value)))
               => {function_points[i], function_points[i + 1]}
                      \subseteq Range(local_maxima)
    /\ function_points = ScenarioB
           => local_maxima = <<create_point(1, 10), create_point(2, 10)>>

\* (3,5) was inserted last into the structure holding (1,10), (2,10)
C14_Witness ==
    /\ call.op = "set_value" /\ ~call.thrown /\ call.a = 3 /\ call.v = 5
    /\ function_points = ScenarioB
    /\ old_function_points = <<create_point(1, 10), create_point(2, 10)>>

\* C15: a structure holding exactly one point has that point as its maxima
\* sequence, however it was reached.
C15_SinglePoint ==
    Len(function_points) = 1 => local_maxima = function_points

\* the last but one point was erased and the remaining point, not a maximum
\* until then, was promoted
C15_Witness ==
    /\ call.op = "erase" /\ ~call.thrown
    /\ Len(function_points) = 1
    /\ TraceHas("mx_insert", 495)
    /\ old_local_maxima # function_points

\* the events of a set_value call before the new point is built at line 351
ClassificationTrace ==
    LET I == {i \in 1..Len(trace) : trace[i] = Event("copy", 351)}
    IN  SubSeq(trace, 1, IF I = {} THEN Len(trace) ELSE Min(I) - 1)

\* C16: before the new point is built, set_value copies no argument
\* or value and mutates no index, whether a is mapped or not.
C16_ClassificationPure ==
    call.op = "set_value" =>
        \A i \in 1..Len(ClassificationTrace) :
            ClassificationTrace[i].op \notin Mutations \cup {"copy"}

Insertions == {"fp_insert", "mx_insert"}

Removals == {"fp_erase", "mx_erase"}

GuardLines == {215, 239, 243, 247}

CountOf(ops) == Cardinality({i \in 1..Len(trace) : trace[i].op \in ops})

\* C17: within a set_value or erase call no insertion and no copy follows a
\* removal; when the call throws, the removals are exactly the guards'
\* removals of the insertions made so far and the structure is as on entry.
C17_InsertionsFirst ==
    call.op \in {"set_value", "erase"} =>
        /\ \A i, j \in 1..Len(trace) :
               (i < j /\ trace[i].op \in Removals)
                   => trace[j].op \notin Insertions \cup {"copy"}
        /\ call.thrown =>
               /\ \A i \in 1..Len(trace) :
                      trace[i].op \in Removals => trace[i].line \in GuardLines
               /\ CountOf(Removals) = CountOf(Insertions)
               /\ Unchanged
        /\ ~call.thrown =>
               \A i \in 1..Len(trace) : trace[i].line \notin GuardLines

\* an erase promoted both neighbours and then removed the point
C17_Witness ==
    /\ call.op = "erase" /\ ~call.thrown
    /\ TraceHas("mx_insert", 495) /\ TraceHas("mx_insert", 498)
    /\ TraceHas("fp_erase", 500) /\ TraceHas("mx_erase", 503)

\* C18: after successful calls only, the maxima sequence is empty exactly
\* when the domain is empty, and otherwise no mapped point has a value
\* greater than that of the first element of the maxima sequence.
C18_GlobalMaximumFirst ==
    /\ (local_maxima = <<>>) <=> (function_points = <<>>)
    /\ function_points # <<>> =>
           \A i \in 1..Len(function_points) :
               ~(function_points[i].value > local_maxima[1].value)

\* two maxima of different values, the greater one entered last
C18_Witness ==
    /\ call.op = "set_value" /\ ~call.thrown
    /\ Len(local_maxima) >= 2 /\ Len(function_points) >= 3
    /\ local_maxima[1].arg = call.a
    /\ local_maxima[1].value > local_maxima[2].value

ValueAtOps ==
    {"value_at", "set_value;value_at", "erase;value_at",
     "set_value;erase;value_at"}

\* C11: value_at(a) leaves both sequences unchanged; when no comparison
\* throws it fails with InvalidArg exactly when a is unmapped and otherwise
\* returns the value mapped to a: it returns v right after a successful
\* set_value(a, v) and fails with InvalidArg right after a successful erase(a).
C11_ValueAt ==
    /\ call.op \in ValueAtOps =>
           /\ Unchanged
           /\ \A i \in 1..Len(trace) : trace[i].op \notin Mutations
           /\ call.fail = "none" =>
                  /\ call.thrown <=> ~Mapped(function_points, call.a)
                  /\ (call.ret = InvalidArg) <=> call.thrown
                  /\ ~call.thrown => call.ret = ValueOf(function_points, call.a)
    /\ call.op = "set_value;value_at" => (~call.thrown /\ call.ret = call.v)
    /\ call.op \in {"erase;value_at", "set_value;erase;value_at"} =>
           (call.thrown /\ call.ret = InvalidArg)

\* value_at(a) failed after set_value(a, v) and erase(a) on a structure that
\* maps other arguments
C11_Witness ==
    /\ call.op = "set_value;erase;value_at"
    /\ call.thrown /\ call.ret = InvalidArg
    /\ function_points # <<>>

\* C19: a successful set_value(a, v) of an unmapped a followed by a successful
\* erase(a) leaves both sequences and size() as they were before the set_value.
C19_RoundTrip ==
    call.op = "set_value;erase" => (~call.thrown /\ Unchanged)

\* the set_value had demoted the right neighbour and the erase promoted it back
C19_Witness ==
    /\ call.op = "set_value;erase" /\ ~call.thrown
    /\ Len(old_function_points) >= 2
    /\ TraceHas("mx_insert", 498)
    /\ Unchanged

\* the point objects of both structures that hold the point p
HoldersOf(p) ==
    CopiesIn(p, holders(This)) + CopiesIn(p, holders(Other))

====
